---- MODULE Spec2Model ----
(***************************************************************************)
(* nixos-ami-upload: one run of main/main_ (src/src/main.rs) as a state    *)
(* machine.  The run is a single task; every step below is the code        *)
(* between two points where the run can end (a `?`, an `ensure!`, an       *)
(* `expect`/`unwrap`) or where a remote call is awaited.  The remote       *)
(* provider (EBS, EC2, SSM) is the environment: each call may fail, and    *)
(* what it returns is chosen nondeterministically from small sets.         *)
(*                                                                         *)
(* Strings that the program splits or parses are sequences of symbols: a   *)
(* symbol is the separator "," or a word that holds no separator.  A token *)
(* of several words is their concatenation, which names no region.         *)
(* An Option<T> is a sequence of length at most one: <<>> is None.         *)
(***************************************************************************)
EXTENDS Integers, Sequences, FiniteSets, TLC

(* ------------------------------ bounds -------------------------------- *)
\* longest --regions string, in symbols
MaxSelectorLen == 5
\* most pages the region directory answers with
MaxPages == 2
\* most parameters in one page of the directory
MaxPageLen == 1

(* ------------------------------ inputs -------------------------------- *)
Comma == ","
All == <<"all">>
SelectorSymbols ==
    {Comma, "all", "us-east-1", "useast1", "us-west-2", "eu-west-1"}
Selectors == UNION {[1..n -> SelectorSymbols] : n \in 0..MaxSelectorLen}

\* rusoto_core::region::Region, by variant
Regions == {"UsEast1", "UsWest2", "EuWest1"}
ParseRegionError == "ParseRegionError"

\* what info.system may hold
Systems == {"x86_64-linux", "aarch64-linux"}

\* a parameter's value in a page of the directory: Some(string) or None
PageValues == {<<<<"us-east-1">>>>, <<<<"us-west-2">>>>, <<<<"eu-west-1">>>>,
               <<<<"xx">>>>, <<>>}
PageLists == UNION {[1..n -> PageValues] : n \in 0..MaxPageLen}

(* ------------------------- pure functions ----------------------------- *)
\* str::split(","): the pieces between separators; "" gives one empty piece
RECURSIVE Split(_)
Split(s) ==
    IF \E i \in 1..Len(s) : s[i] = Comma
    THEN LET i == CHOOSE k \in 1..Len(s) :
                      s[k] = Comma /\ \A j \in 1..(k - 1) : s[j] # Comma
         IN  <<SubSeq(s, 1, i - 1)>> \o Split(SubSeq(s, i + 1, Len(s)))
    ELSE <<s>>

\* Region::from_str: the region's name or its alias without dashes
FromStr(t) ==
    IF Len(t) # 1 THEN ParseRegionError
    ELSE IF t[1] \in {"us-east-1", "useast1"} THEN "UsEast1"
    ELSE IF t[1] \in {"us-west-2", "uswest2"} THEN "UsWest2"
    ELSE IF t[1] \in {"eu-west-1", "euwest1"} THEN "EuWest1"
    ELSE ParseRegionError

\* Region::name
Name(r) ==
    CASE r = "UsEast1" -> "us-east-1"
      [] r = "UsWest2" -> "us-west-2"
      [] r = "EuWest1" -> "eu-west-1"

\* iter.map(from_str).collect::<Result<Vec<_>>>(): the payload when Ok
ParseAll(ts) == [i \in 1..Len(ts) |-> FromStr(ts[i])]
AllParse(ts) == \A i \in 1..Len(ts) : FromStr(ts[i]) # ParseRegionError

\* faulty variant of FilterRegions: nothing is filtered out
FilterRegionsKeepAll(rs, home) == rs

\* faulty variant of FilterRegions: the home region is taken to be the first
\* entry and only that entry is dropped
FilterRegionsDropFirst(rs, home) == IF rs = <<>> THEN <<>> ELSE Tail(rs)

\* resolved_regions.into_iter().filter(|f| f != &initial_region).collect()
RECURSIVE FilterRegions(_, _)
FilterRegions(rs, home) ==
    IF rs = <<>> THEN <<>>
    ELSE (IF Head(rs) # home THEN <<Head(rs)>> ELSE <<>>)
         \o FilterRegions(Tail(rs), home)

(* --------------------------- u64 arithmetic --------------------------- *)
\* let bytes_in_gb = 1024 * 1024 * 1024
bytes_in_gb == 1024 * 1024 * 1024

\* the width of logical_bytes, root_size and ami_gbs
U64Bits == 64

\* A u64 is <<d0, d1, d2>>, the number d0 + d1 * 2^30 + d2 * 2^60 with
\* d0, d1 < 2^30 and d2 < 2^4: its digits in base bytes_in_gb.
TopLimb == 2 ^ (U64Bits - 60)
U64Zero == <<0, 0, 0>>
U64One == <<1, 0, 0>>
U64Gb == <<0, 1, 0>>
U64Max == <<bytes_in_gb - 1, bytes_in_gb - 1, TopLimb - 1>>

\* x + y in u64: the sum modulo 2^64, and whether it wrapped
AddU64(x, y) ==
    LET s0 == x[1] + y[1]
        s1 == x[2] + y[2] + (s0 \div bytes_in_gb)
        s2 == x[3] + y[3] + (s1 \div bytes_in_gb)
    IN  [val |-> <<s0 % bytes_in_gb, s1 % bytes_in_gb, s2 % TopLimb>>,
         wrapped |-> s2 >= TopLimb]

\* x - y in u64: the difference modulo 2^64, and whether it wrapped
SubU64(x, y) ==
    LET t0 == x[1] - y[1]
        b0 == IF t0 < 0 THEN 1 ELSE 0
        t1 == x[2] - y[2] - b0
        b1 == IF t1 < 0 THEN 1 ELSE 0
        t2 == x[3] - y[3] - b1
    IN  [val |-> <<t0 + b0 * bytes_in_gb, t1 + b1 * bytes_in_gb,
                   (t2 + TopLimb) % TopLimb>>,
         wrapped |-> t2 < 0]

\* x / bytes_in_gb in u64: the digits above the lowest
DivByGb(x) == <<x[2], x[3], 0>>

\* x <= y
LeqU64(x, y) ==
    \/ x[3] < y[3]
    \/ x[3] = y[3] /\ x[2] < y[2]
    \/ x[3] = y[3] /\ x[2] = y[2] /\ x[1] <= y[1]

\* `x as i64`: the same 64 bits read as two's complement; a value with bit
\* 63 set is the negative number x - 2^64
AsI64(x) ==
    IF x[3] >= TopLimb \div 2
    THEN [neg |-> TRUE, mag |-> SubU64(U64Zero, x).val]
    ELSE [neg |-> FALSE, mag |-> x]

\* the step (info.logical_bytes + bytes_in_gb - 1) overflows u64
RoundUpOverflows(lb) ==
    \/ AddU64(lb, U64Gb).wrapped
    \/ SubU64(AddU64(lb, U64Gb).val, U64One).wrapped

\* (info.logical_bytes + bytes_in_gb - 1) / bytes_in_gb, wrapping
RoundUpGbs(lb) == DivByGb(SubU64(AddU64(lb, U64Gb).val, U64One).val)

\* what info.logical_bytes may hold: 0, 1, 5 GiB, 5 GiB + 1, 2^64 - 2^30,
\* 2^64 - 1
LogicalBytes ==
    {U64Zero, U64One, <<0, 5, 0>>, <<1, 5, 0>>,
     <<0, bytes_in_gb - 1, TopLimb - 1>>, U64Max}

\* what --root-size may hold: absent, 8, 2^63 - 1, 2^63
RootSizes ==
    {<<>>, <<<<8, 0, 0>>>>,
     <<<<bytes_in_gb - 1, bytes_in_gb - 1, (TopLimb \div 2) - 1>>>>,
     <<<<0, 0, TopLimb \div 2>>>>}

\* what info.label and --name may hold (a string is a sequence of words)
Labels == {"beta"}
Names == {<<>>, <<<<"my-ami">>>>}

\* format!("NixOS-{}-{}", info.label, info.system)
NixosName(l, sys) == <<"NixOS-", l, "-", sys>>

\* faulty variant of AmiName: the --name option is not looked at
AmiNameDerived(n, derived) == derived

\* args.name.unwrap_or(nixos_name.clone())
AmiName(n, derived) == IF n # <<>> THEN n[1] ELSE derived

(* ------------------------------ state --------------------------------- *)
VARIABLES
    pc,              \* where main_ stands
    regions,         \* args.regions
    system,          \* info.system
    region_strs,     \* Vec<&str> of main_
    initial_region,  \* the home region
    next_token,      \* resolve_all_regions: Option<String>
    result,          \* resolve_all_regions: Vec<Region>
    resolved_regions,
    copy_regions,
    snapshot_id,     \* Option: set once the upload returned
    init_ami_id,     \* Option: set once register_image returned
    idx,             \* position of the fan-out loop in copy_regions
    image_id,        \* Option: the id the current region's copy returned
    amis,            \* output.amis: set of <<region name, image id>>
    stdout,          \* the lines printed to standard output
    exit_code,       \* Option: the process's exit status
    err,             \* Option: the error main prints, or the panic's message
    calls,           \* every remote call issued, with its answer, in order
    default_region,  \* Region::default(), once read
    root_size,       \* args.root_size: Option<u64>
    logical_bytes,   \* info.logical_bytes, once read
    label,           \* info.label, once read
    name,            \* args.name: Option<String>
    ami_gbs,         \* u64, once computed
    nixos_name,      \* String, once formatted
    ami_name         \* String, once chosen

vars == <<pc, regions, system, region_strs, initial_region, next_token, result,
          resolved_regions, copy_regions, snapshot_id, init_ami_id, idx,
          image_id, amis, stdout, exit_code, err, calls, default_region,
          root_size, logical_bytes, label, name, ami_gbs, nixos_name,
          ami_name>>

\* what main_ reads and computes between the snapshot and the registration
image_vars == <<root_size, logical_bytes, label, name, ami_gbs, nixos_name,
                ami_name>>

(* --------------------------- the provider ----------------------------- *)
NoSource == ""
NoName == <<>>
NoSize == [neg |-> FALSE, mag |-> <<>>]
Call(op, region, arg, src, ok, ret, page) ==
    [op |-> op, region |-> region, arg |-> arg, src |-> src,
     ok |-> ok, ret |-> ret, page |-> page, name |-> NoName, size |-> NoSize]

\* the request's name (register_image, copy_image) or tag value (create_tags)
Named(call, n) == [call EXCEPT !.name = n]
\* the request's volume_size (register_image)
Sized(call, v) == [call EXCEPT !.size = v]

CallsOf(op) == {i \in 1..Len(calls) : calls[i].op = op}

\* the images the provider holds: <<region, image id>>
Images ==
    {<<calls[i].region, calls[i].ret[1]>> :
        i \in {k \in CallsOf("register_image") \cup CallsOf("copy_image") :
                  calls[k].ok /\ calls[k].ret # <<>>}}

\* identifiers are the provider's, fresh for every resource it creates
FreshSnapshot == <<"snap", Cardinality(CallsOf("upload_from_file")) + 1>>
FreshImage == <<"ami", Cardinality(Images) + 1>>

\* the page the directory serves for a request carrying token t
PageNo(t) == IF t = <<>> THEN 1 ELSE t[1][2] + 1
TokenOf(n) == <<<<"token", n>>>>

(* ----------------------------- main ----------------------------------- *)
\* main: Err(e) => exit(1); a panic unwinds out of main: status 101;
\* Ok => the process ends with status 0
Exit(code, e) ==
    /\ pc' = "exited"
    /\ exit_code' = <<code>>
    /\ err' = e

\* the run goes on to the step at `next`
Goto(next) ==
    /\ pc' = next
    /\ UNCHANGED <<exit_code, err>>

\* the message of unwrap() on a None
UnwrapNone == "called Option::unwrap() on a None value"

Insert(m, k, v) == {e \in m : e[1] # k} \cup {<<k, v>>}

Init ==
    /\ pc = "from_args"
    /\ regions = <<>>
    /\ system = ""
    /\ region_strs = <<>>
    /\ initial_region = ""
    /\ next_token = <<>>
    /\ result = <<>>
    /\ resolved_regions = <<>>
    /\ copy_regions = <<>>
    /\ snapshot_id = <<>>
    /\ init_ami_id = <<>>
    /\ idx = 1
    /\ image_id = <<>>
    /\ amis = {}
    /\ stdout = <<>>
    /\ exit_code = <<>>
    /\ err = <<>>
    /\ calls = <<>>
    /\ default_region = ""
    /\ root_size = <<>>
    /\ logical_bytes = <<>>
    /\ label = ""
    /\ name = <<>>
    /\ ami_gbs = <<>>
    /\ nixos_name = <<>>
    /\ ami_name = <<>>

\* Opt::from_args(): the command line is read once
FromArgs ==
    /\ pc = "from_args"
    /\ \E s \in Selectors : regions' = s
    /\ Goto("read_info")
    /\ UNCHANGED <<default_region, image_vars>>
    /\ UNCHANGED <<system, region_strs, initial_region, next_token, result,
                   resolved_regions, copy_regions, snapshot_id, init_ami_id,
                   idx, image_id, amis, stdout, calls>>

\* File::open(image-info.json)?, serde_json::from_reader(f)?
ReadImageInfo ==
    /\ pc = "read_info"
    /\ \/ /\ \E sys \in Systems : system' = sys
          /\ Goto("check_system")
       \/ /\ \E e \in {"malformed image directory",
                       "error parsing image-info.json"} : Exit(1, <<e>>)
          /\ UNCHANGED system
    /\ UNCHANGED <<default_region, image_vars>>
    /\ UNCHANGED <<regions, region_strs, initial_region, next_token, result,
                   resolved_regions, copy_regions, snapshot_id, init_ami_id,
                   idx, image_id, amis, stdout, calls>>

\* faulty variant of CheckSystem: the system is not compared
CheckSystemSkipped ==
    /\ pc = "check_system"
    /\ Goto("read_header")
    /\ UNCHANGED <<default_region, image_vars>>
    /\ UNCHANGED <<regions, system, region_strs, initial_region, next_token,
                   result, resolved_regions, copy_regions, snapshot_id,
                   init_ami_id, idx, image_id, amis, stdout, calls>>

\* ensure!(info.system == "x86_64-linux", ...)
CheckSystem ==
    /\ pc = "check_system"
    /\ IF system = "x86_64-linux"
       THEN Goto("read_header")
       ELSE Exit(1, <<"unsupported system">>)
    /\ UNCHANGED <<default_region, image_vars>>
    /\ UNCHANGED <<regions, system, region_strs, initial_region, next_token,
                   result, resolved_regions, copy_regions, snapshot_id,
                   init_ami_id, idx, image_id, amis, stdout, calls>>

\* gpt::header::read_header(&image, ...).map_err(...)?
ReadHeader ==
    /\ pc = "read_header"
    /\ \/ Goto("split")
       \/ Exit(1, <<"could not read disk header">>)
    /\ UNCHANGED <<default_region, image_vars>>
    /\ UNCHANGED <<regions, system, region_strs, initial_region, next_token,
                   result, resolved_regions, copy_regions, snapshot_id,
                   init_ami_id, idx, image_id, amis, stdout, calls>>

\* args.regions.split(",").collect(); ensure!(!region_strs.is_empty(), ...)
SplitRegions ==
    /\ pc = "split"
    /\ region_strs' = Split(regions)
    /\ IF Split(regions) # <<>>
       THEN Goto("resolve")
       ELSE Exit(1, <<"must specify one or more regions">>)
    /\ UNCHANGED <<default_region, image_vars>>
    /\ UNCHANGED <<regions, system, initial_region, next_token, result,
                   resolved_regions, copy_regions, snapshot_id, init_ami_id,
                   idx, image_id, amis, stdout, calls>>

\* faulty variant of IsAll: the sentinel is looked for at every position
IsAllAnywhere(strs) == \E i \in 1..Len(strs) : strs[i] = All

\* region_strs[0] == "all"
IsAll(strs) == strs[1] = All

\* faulty variant of InitialRegionOf: the last region of the list is taken
InitialRegionLast(rs) == rs[Len(rs)]

\* initial_region = rs[0].clone()
InitialRegionOf(rs) == rs[1]

\* let mut initial_region = Region::default();
\* region_strs[0] == "all" ? resolve_all_regions() : every token parsed
\* (Region::default() reads the environment: any region)
ResolveRegions ==
    /\ pc = "resolve"
    /\ \E d \in Regions :
          /\ default_region' = d
          /\ IF IsAll(region_strs)
             THEN /\ initial_region' = d
                  /\ next_token' = <<>>
                  /\ result' = <<>>
                  /\ Goto("get_parameters")
                  /\ UNCHANGED resolved_regions
             ELSE IF AllParse(region_strs)
             THEN /\ initial_region' = InitialRegionOf(ParseAll(region_strs))
                  /\ resolved_regions' = ParseAll(region_strs)
                  /\ Goto("filter")
                  /\ UNCHANGED <<next_token, result>>
             ELSE /\ initial_region' = d
                  /\ Exit(1, <<"failed to parse region">>)
                  /\ UNCHANGED <<next_token, result, resolved_regions>>
    /\ UNCHANGED image_vars
    /\ UNCHANGED <<regions, system, region_strs, copy_regions, snapshot_id,
                   init_ami_id, idx, image_id, amis, stdout, calls>>

(* ----------------------- resolve_all_regions -------------------------- *)
\* the first parameter of the page that ends the run: one with no value
\* (p.value.unwrap() panics) or with a value that names no region
\* (collect() returns the Err); 0 when every parameter gives a region
FirstBad(ps) ==
    LET bad == {i \in 1..Len(ps) :
                   ps[i] = <<>> \/ FromStr(ps[i][1]) = ParseRegionError}
    IN  IF bad = {} THEN 0
        ELSE CHOOSE i \in bad : \A j \in bad : i <= j

\* params.parameters...map(|p| p.value.unwrap()).map(from_str).collect()
RegionsOfPage(ps) == [i \in 1..Len(ps) |-> FromStr(ps[i][1])]

\* faulty variant of Accumulate: the page replaces what was gathered
AccumulateOverwrite(res, rs) == rs

\* result.append(&mut regions)
Accumulate(res, rs) == res \o rs

\* next_token: next_token.clone() of the request
RequestToken == next_token

\* faulty variant of ResolveAllRegionsErr: on an error the resolver returns
\* the regions of the pages fetched so far
ResolveAllRegionsPartial(code, e) ==
    /\ resolved_regions' = result
    /\ Goto("filter")
    /\ UNCHANGED <<next_token, result>>

\* resolve_all_regions().await?: an error (or panic) inside the resolver ends
\* the run; the vector of the pages fetched so far is dropped with it
ResolveAllRegionsErr(code, e) ==
    /\ Exit(code, e)
    /\ UNCHANGED <<next_token, result, resolved_regions>>

\* one turn of the loop: the request, the page's regions appended, the
\* token kept, and the return when the response carries no token.  The
\* client is SsmClient::new(Region::default()).  From the first request on
\* neither args.regions nor region_strs is read again: the model drops them.
GetParametersByPath ==
    /\ pc = "get_parameters"
    /\ regions' = <<>>
    /\ region_strs' = <<>>
    /\ LET req(ok, ret, page) ==
               Call("get_parameters_by_path", default_region, RequestToken,
                    NoSource, ok, ret, page)
           n == PageNo(RequestToken)
       IN  \/ \* the request fails: `?`
              /\ calls' = Append(calls, req(FALSE, <<>>, <<>>))
              /\ ResolveAllRegionsErr(1, <<"get_parameters_by_path failed">>)
           \/ \* the response holds no parameter list: unwrap() panics
              /\ calls' = Append(calls, req(TRUE, <<>>, <<>>))
              /\ ResolveAllRegionsErr(101, <<UnwrapNone>>)
           \/ \E ps \in PageLists :
              \E tok \in {<<>>} \cup (IF n < MaxPages THEN {TokenOf(n)} ELSE {}) :
                 /\ calls' = Append(calls, req(TRUE, tok, <<ps>>))
                 /\ IF FirstBad(ps) # 0
                    THEN IF ps[FirstBad(ps)] = <<>>
                         THEN ResolveAllRegionsErr(101, <<UnwrapNone>>)
                         ELSE ResolveAllRegionsErr(
                                 1, <<"could not parse region">>)
                    ELSE /\ result' = Accumulate(result, RegionsOfPage(ps))
                         /\ next_token' = tok
                         /\ IF tok = <<>>
                            THEN /\ resolved_regions' = result'
                                 /\ Goto("filter")
                            ELSE /\ Goto("get_parameters")
                                 /\ UNCHANGED resolved_regions
    /\ UNCHANGED <<default_region, image_vars>>
    /\ UNCHANGED <<system, initial_region, copy_regions, snapshot_id,
                   init_ami_id, idx, image_id, amis, stdout>>

\* let copy_regions = resolved_regions.into_iter().filter(...).collect()
FilterCopyRegions ==
    /\ pc = "filter"
    /\ copy_regions' = FilterRegions(resolved_regions, initial_region)
    /\ Goto("upload")
    /\ UNCHANGED <<default_region, image_vars>>
    /\ UNCHANGED <<regions, system, region_strs, initial_region, next_token,
                   result, resolved_regions, snapshot_id, init_ami_id, idx,
                   image_id, amis, stdout, calls>>

(* ------------------------- home-region publish ------------------------ *)
\* uploader.upload_from_file(&image, None, Some(&info.label), ..).await?
UploadSnapshot ==
    /\ pc = "upload"
    /\ \/ /\ calls' = Append(calls, Call("upload_from_file", initial_region,
                                          <<>>, NoSource, TRUE,
                                          <<FreshSnapshot>>, <<>>))
          /\ snapshot_id' = <<FreshSnapshot>>
          /\ Goto("wait")
       \/ /\ calls' = Append(calls, Call("upload_from_file", initial_region,
                                          <<>>, NoSource, FALSE, <<>>, <<>>))
          /\ Exit(1, <<"upload_from_file failed">>)
          /\ UNCHANGED snapshot_id
    /\ UNCHANGED <<default_region, image_vars>>
    /\ UNCHANGED <<regions, system, region_strs, initial_region, next_token,
                   result, resolved_regions, copy_regions, init_ami_id, idx,
                   image_id, amis, stdout>>

\* faulty variant of WaitSnapshot: the waiter's result is dropped
WaitSnapshotUnchecked ==
    /\ pc = "wait"
    /\ \E ok \in BOOLEAN :
          calls' = Append(calls, Call("wait_for_completed", initial_region,
                                      snapshot_id, NoSource, ok, <<>>, <<>>))
    /\ Goto("prepare")
    /\ UNCHANGED <<default_region, image_vars>>
    /\ UNCHANGED <<regions, system, region_strs, initial_region, next_token,
                   result, resolved_regions, copy_regions, snapshot_id,
                   init_ami_id, idx, image_id, amis, stdout>>

\* SnapshotWaiter::new(ec2_client).wait_for_completed(&snapshot_id).await?
WaitSnapshot ==
    /\ pc = "wait"
    /\ \E ok \in BOOLEAN :
          /\ calls' = Append(calls, Call("wait_for_completed", initial_region,
                                          snapshot_id, NoSource, ok, <<>>, <<>>))
          /\ IF ok THEN Goto("prepare")
                   ELSE Exit(1, <<"wait_for_completed failed">>)
    /\ UNCHANGED <<default_region, image_vars>>
    /\ UNCHANGED <<regions, system, region_strs, initial_region, next_token,
                   result, resolved_regions, copy_regions, snapshot_id,
                   init_ami_id, idx, image_id, amis, stdout>>

\* let ami_gbs = match args.root_size { Some(s) => s, None => round up };
\* let nixos_name = format!(..); let ami_name = args.name.unwrap_or(..).
\* args.root_size, args.name, info.label and info.logical_bytes are drawn
\* here, where main_ first reads them; info.logical_bytes is read only when
\* no root size is given.  An overflow of the rounding panics in a build
\* with overflow checks and wraps in one without.
PrepareRegistration ==
    /\ pc = "prepare"
    /\ \E rs \in RootSizes, n \in Names, l \in Labels :
          /\ root_size' = rs
          /\ name' = n
          /\ label' = l
          /\ nixos_name' = NixosName(l, system)
          /\ ami_name' = AmiName(n, NixosName(l, system))
          /\ IF rs # <<>>
             THEN /\ ami_gbs' = rs[1]
                  /\ Goto("register")
                  /\ UNCHANGED logical_bytes
             ELSE \E lb \in LogicalBytes :
                     /\ logical_bytes' = lb
                     /\ \/ /\ ami_gbs' = RoundUpGbs(lb)
                           /\ Goto("register")
                        \/ /\ RoundUpOverflows(lb)
                           /\ Exit(101, <<"attempt to add with overflow">>)
                           /\ UNCHANGED ami_gbs
    /\ UNCHANGED default_region
    /\ UNCHANGED <<regions, system, region_strs, initial_region, next_token,
                   result, resolved_regions, copy_regions, snapshot_id,
                   init_ami_id, idx, image_id, amis, stdout, calls>>

\* faulty variant of TagValue: the display name is used
TagValueDisplayName == ami_name

\* value: Some(nixos_name.clone()) of both tag requests
TagValue == nixos_name

\* ec2_client.register_image(..).await.expect(..); resp.image_id.unwrap()
RegisterImage ==
    /\ pc = "register"
    /\ LET req(ok, ret) ==
               Sized(Named(Call("register_image", initial_region, snapshot_id,
                                NoSource, ok, ret, <<>>), ami_name),
                     AsI64(ami_gbs))
       IN  \/ /\ calls' = Append(calls, req(TRUE, <<FreshImage>>))
              /\ init_ami_id' = <<FreshImage>>
              /\ Goto("tag_home")
           \/ \* the request fails: expect() panics
              /\ calls' = Append(calls, req(FALSE, <<>>))
              /\ Exit(101, <<"could not register ami">>)
              /\ UNCHANGED init_ami_id
           \/ \* the response holds no image id: unwrap() panics
              /\ calls' = Append(calls, req(TRUE, <<>>))
              /\ Exit(101, <<UnwrapNone>>)
              /\ UNCHANGED init_ami_id
    /\ UNCHANGED <<default_region, image_vars>>
    /\ UNCHANGED <<regions, system, region_strs, initial_region, next_token,
                   result, resolved_regions, copy_regions, snapshot_id, idx,
                   image_id, amis, stdout>>

\* faulty variant of TagHome: the tag request's result is dropped
TagHomeUnchecked ==
    /\ pc = "tag_home"
    /\ \E ok \in BOOLEAN :
          calls' = Append(calls, Named(Call("create_tags", initial_region,
                                            init_ami_id, NoSource, ok, <<>>,
                                            <<>>), TagValue))
    /\ amis' = Insert(amis, Name(initial_region), init_ami_id[1])
    /\ Goto(IF copy_regions # <<>> THEN "copy" ELSE "output")
    /\ UNCHANGED <<default_region, image_vars>>
    /\ UNCHANGED <<regions, system, region_strs, initial_region, next_token,
                   result, resolved_regions, copy_regions, snapshot_id,
                   init_ami_id, idx, image_id, stdout>>

\* ec2_client.create_tags(resources: [init_ami_id]).await?; then
\* output.amis.insert(initial_region.name(), init_ami_id) and the test
\* !copy_regions.is_empty() that opens the fan-out
TagHome ==
    /\ pc = "tag_home"
    /\ \E ok \in BOOLEAN :
          /\ calls' = Append(calls, Named(Call("create_tags", initial_region,
                                                init_ami_id, NoSource, ok,
                                                <<>>, <<>>), TagValue))
          /\ IF ok
             THEN /\ amis' = Insert(amis, Name(initial_region), init_ami_id[1])
                  /\ Goto(IF copy_regions # <<>> THEN "copy" ELSE "output")
             ELSE /\ Exit(1, <<"create_tags failed">>)
                  /\ UNCHANGED amis
    /\ UNCHANGED <<default_region, image_vars>>
    /\ UNCHANGED <<regions, system, region_strs, initial_region, next_token,
                   result, resolved_regions, copy_regions, snapshot_id,
                   init_ami_id, idx, image_id, stdout>>

(* --------------------------- the fan-out ------------------------------ *)
\* for region in &copy_regions
Region == copy_regions[idx]

\* resources: vec![init_ami_id.clone()] of the tag request in the loop
TagCopyResource == init_ami_id

\* ec2_client.copy_image(..).await.expect(..); resp.image_id.unwrap();
\* output.amis.insert(region.name(), image_id)
CopyImage ==
    /\ pc = "copy"
    /\ LET req(ok, ret) ==
               Named(Call("copy_image", Region, init_ami_id,
                          Name(initial_region), ok, ret, <<>>), ami_name)
       IN  \/ /\ calls' = Append(calls, req(TRUE, <<FreshImage>>))
              /\ image_id' = <<FreshImage>>
              /\ amis' = Insert(amis, Name(Region), FreshImage)
              /\ Goto("tag_copy")
           \/ \* the request fails: expect() panics
              /\ calls' = Append(calls, req(FALSE, <<>>))
              /\ Exit(101, <<"could not copy ami to region">>)
              /\ UNCHANGED <<image_id, amis>>
           \/ \* the response holds no image id: unwrap() panics
              /\ calls' = Append(calls, req(TRUE, <<>>))
              /\ Exit(101, <<UnwrapNone>>)
              /\ UNCHANGED <<image_id, amis>>
    /\ UNCHANGED <<default_region, image_vars>>
    /\ UNCHANGED <<regions, system, region_strs, initial_region, next_token,
                   result, resolved_regions, copy_regions, snapshot_id,
                   init_ami_id, idx, stdout>>

\* faulty variant of TagCopy: the outcome of the tag request is not looked
\* at
TagCopyUnchecked ==
    /\ pc = "tag_copy"
    /\ \E ok \in BOOLEAN :
          calls' = Append(calls, Named(Call("create_tags", Region,
                                            TagCopyResource, NoSource, ok,
                                            <<>>, <<>>), TagValue))
    /\ idx' = idx + 1
    /\ Goto(IF idx < Len(copy_regions) THEN "copy" ELSE "output")
    /\ UNCHANGED <<default_region, image_vars>>
    /\ UNCHANGED <<regions, system, region_strs, initial_region, next_token,
                   result, resolved_regions, copy_regions, snapshot_id,
                   init_ami_id, image_id, amis, stdout>>

\* ec2_client.create_tags(..).await?; copy_progress.inc(1); next region
TagCopy ==
    /\ pc = "tag_copy"
    /\ \E ok \in BOOLEAN :
          /\ calls' = Append(calls, Named(Call("create_tags", Region,
                                                TagCopyResource, NoSource, ok,
                                                <<>>, <<>>), TagValue))
          /\ IF ok
             THEN /\ idx' = idx + 1
                  /\ Goto(IF idx < Len(copy_regions) THEN "copy" ELSE "output")
             ELSE /\ Exit(1, <<"create_tags failed">>)
                  /\ UNCHANGED idx
    /\ UNCHANGED <<default_region, image_vars>>
    /\ UNCHANGED <<regions, system, region_strs, initial_region, next_token,
                   result, resolved_regions, copy_regions, snapshot_id,
                   init_ami_id, image_id, amis, stdout>>

\* println!("{}", serde_json::to_string(&output)?); Ok(())
PrintOutput ==
    /\ pc = "output"
    /\ stdout' = Append(stdout, amis)
    /\ Exit(0, <<>>)
    /\ UNCHANGED <<default_region, image_vars>>
    /\ UNCHANGED <<regions, system, region_strs, initial_region, next_token,
                   result, resolved_regions, copy_regions, snapshot_id,
                   init_ami_id, idx, image_id, amis, calls>>

Next ==
    \/ FromArgs
    \/ ReadImageInfo
    \/ CheckSystem
    \/ ReadHeader
    \/ SplitRegions
    \/ ResolveRegions
    \/ GetParametersByPath
    \/ FilterCopyRegions
    \/ UploadSnapshot
    \/ WaitSnapshot
    \/ PrepareRegistration
    \/ RegisterImage
    \/ TagHome
    \/ CopyImage
    \/ TagCopy
    \/ PrintOutput

Spec == Init /\ [][Next]_vars


(* ======================= properties of a run ========================== *)
Ops(op) == CallsOf(op)
Exited == pc = "exited"
Succeeded == exit_code = <<0>>

\* the home tag request is the tag request that follows the registration
IsHomeTag(i) ==
    /\ calls[i].op = "create_tags"
    /\ i > 1
    /\ calls[i - 1].op = "register_image"

\* a fan-out tag request is the tag request that follows a copy request
IsCopyTag(i) ==
    /\ calls[i].op = "create_tags"
    /\ i > 1
    /\ calls[i - 1].op = "copy_image"

\* upload, wait, registration and home tag all succeeded
HomePublished == \E i \in 1..Len(calls) : IsHomeTag(i) /\ calls[i].ok

\* the copy request at i gave an image and the tag request after it succeeded
Replicated(i) ==
    /\ calls[i].op = "copy_image"
    /\ calls[i].ok
    /\ calls[i].ret # <<>>
    /\ i < Len(calls)
    /\ calls[i + 1].ok

\* some copy request or fan-out tag request of the run failed
ReplicaFailed ==
    \E i \in 1..Len(calls) :
       \/ calls[i].op = "copy_image" /\ (~calls[i].ok \/ calls[i].ret = <<>>)
       \/ IsCopyTag(i) /\ ~calls[i].ok

\* C1 (as stated): in a finished run whose home publish succeeded, every
\* replica region of the resolved set has received its copy request,
\* whatever became of the requests for the regions before it.
C1_EveryReplicaAttempted ==
    (Exited /\ HomePublished) =>
        \A k \in 1..Len(copy_regions) :
           \E i \in Ops("copy_image") : calls[i].region = copy_regions[k]

\* C2 (as stated): a run whose home publish succeeded and in which a copy or
\* tag request of a replica region failed ends with exit code 0 and one
\* report: the home entry plus one entry per replica whose replication
\* succeeded, the failed regions absent.
C2_ReplicaFailureIsNotFatal ==
    (Exited /\ HomePublished /\ ReplicaFailed) =>
        /\ Succeeded
        /\ Len(stdout) = 1
        /\ stdout[1] =
              {<<Name(initial_region), init_ami_id[1]>>} \cup
              {<<Name(calls[i].region), calls[i].ret[1]>> :
                  i \in {k \in 1..Len(calls) : Replicated(k)}}

\* C3 (as stated): the tag request that follows a successful copy is issued
\* in the copy's region and names the image id that copy returned, an image
\* the provider holds in that region.
C3_TagNamesTheCopy ==
    \A i \in 1..Len(calls) :
       IsCopyTag(i) =>
          /\ calls[i].region = calls[i - 1].region
          /\ calls[i].arg = calls[i - 1].ret
          /\ <<calls[i].region, calls[i].arg[1]>> \in Images


\* C4: the pipeline is ordered.  At most one upload; a register request
\* only after the wait succeeded for the snapshot the one upload returned,
\* and for that snapshot; the home tag only after the registration returned
\* the image id it names; a copy request only after that, naming that image
\* and the home region as its source; the report only once every replica
\* region has had its copy and tag request.
C4_PipelineOrdered ==
    /\ Cardinality(Ops("upload_from_file")) <= 1
    /\ \A r \in Ops("register_image") :
          \E u \in Ops("upload_from_file"), w \in Ops("wait_for_completed") :
             /\ u < w /\ w < r
             /\ calls[u].ok /\ calls[w].ok
             /\ calls[u].ret # <<>>
             /\ calls[w].arg = calls[u].ret
             /\ calls[r].arg = calls[u].ret
    /\ \A t \in Ops("create_tags") :
          calls[t].region = initial_region =>
             \E r \in Ops("register_image") :
                /\ r < t
                /\ calls[r].ok /\ calls[r].ret # <<>>
                /\ calls[t].arg = calls[r].ret
    /\ \A c \in Ops("copy_image") :
          \E r \in Ops("register_image") :
             /\ r < c
             /\ calls[r].ok /\ calls[r].ret # <<>>
             /\ calls[c].arg = calls[r].ret
             /\ calls[c].src = Name(calls[r].region)
    /\ stdout # <<>> =>
          /\ Len(stdout) = 1
          /\ Cardinality(Ops("copy_image")) = Len(copy_regions)
          /\ \A c \in Ops("copy_image") : c < Len(calls) /\ IsCopyTag(c + 1)
          /\ \A k \in 1..Len(copy_regions) :
                \E c \in Ops("copy_image") : calls[c].region = copy_regions[k]

\* C4 witness: a run that went through the whole pipeline, fan-out to two
\* replica regions included, and printed its report.
C4_Witness ==
    /\ Succeeded
    /\ stdout # <<>>
    /\ Len(copy_regions) >= 2
    /\ copy_regions[1] # copy_regions[2]

MutatingOps ==
    {"upload_from_file", "register_image", "create_tags", "copy_image"}
NoMutation == \A i \in 1..Len(calls) : calls[i].op \notin MutatingOps

\* C5: input errors cause no remote side effect.  An unsupported system
\* ends the run in failure with no remote call at all; a disk image that
\* fails the header check, or an explicit region list holding a token that
\* names no region, ends it in failure with no mutating call.
C5_InputErrorsNoSideEffect ==
    /\ system \notin {"", "x86_64-linux"} =>
          /\ calls = <<>>
          /\ pc \in {"check_system", "exited"}
          /\ Exited => exit_code = <<1>> /\ err = <<"unsupported system">>
    /\ err = <<"could not read disk header">> =>
          Exited /\ exit_code = <<1>> /\ NoMutation
    /\ (/\ region_strs # <<>>
        /\ region_strs[1] # All
        /\ ~AllParse(region_strs)) =>
          /\ NoMutation
          /\ pc \in {"resolve", "exited"}
          /\ Exited => exit_code = <<1>> /\ err = <<"failed to parse region">>

\* C5 witness: the run ended on an explicit list whose first token is a
\* region and one of whose later tokens is not.
C5_Witness ==
    /\ Exited
    /\ err = <<"failed to parse region">>
    /\ Len(region_strs) >= 2
    /\ FromStr(region_strs[1]) # ParseRegionError

ProviderOps ==
    {"get_parameters_by_path", "upload_from_file", "wait_for_completed",
     "register_image", "create_tags", "copy_image"}

\* a step of the home publish that failed
HomeStepFailed(i) ==
    \/ calls[i].op \in {"upload_from_file", "wait_for_completed"} /\ ~calls[i].ok
    \/ calls[i].op = "register_image" /\ (~calls[i].ok \/ calls[i].ret = <<>>)
    \/ /\ calls[i].op = "create_tags"
       /\ calls[i].region = initial_region
       /\ ~calls[i].ok

\* C6: a failed home-publish step (upload, wait, registration, home tag) is
\* the last remote call of the run; the run has ended with a non-zero exit
\* and nothing on standard output; and no call of the run is anything but
\* the six operations of the pipeline, none of which deletes a resource.
C6_HomeFailureIsFatal ==
    /\ \A i \in 1..Len(calls) :
          HomeStepFailed(i) =>
             /\ i = Len(calls)
             /\ Exited
             /\ exit_code \in {<<1>>, <<101>>}
             /\ stdout = <<>>
    /\ \A i \in 1..Len(calls) : calls[i].op \in ProviderOps

\* C6 witness: the home tag request failed after snapshot and image were
\* created; the run is over and both are still there.
C6_Witness ==
    /\ Exited
    /\ calls # <<>>
    /\ calls[Len(calls)].op = "create_tags"
    /\ calls[Len(calls)].region = initial_region
    /\ ~calls[Len(calls)].ok
    /\ Images # {}
    /\ snapshot_id # <<>>


\* C7: a run that exits successfully has printed one report, and the report
\* holds, under the home region's name, the image id the registration
\* returned and no other; from the home insertion to the report no step of
\* the fan-out removes or replaces that entry.
C7_HomeEntryReported ==
    /\ Succeeded =>
          /\ Len(stdout) = 1
          /\ \E r \in Ops("register_image") :
                /\ calls[r].ok /\ calls[r].ret # <<>>
                /\ <<Name(calls[r].region), calls[r].ret[1]>> \in stdout[1]
                /\ \A e \in stdout[1] :
                      e[1] = Name(calls[r].region) => e[2] = calls[r].ret[1]
    /\ pc \in {"copy", "tag_copy", "output"} =>
          /\ <<Name(initial_region), init_ami_id[1]>> \in amis
          /\ \A e \in amis :
                e[1] = Name(initial_region) => e[2] = init_ami_id[1]

\* C7 witness: a successful run whose resolved regions held the home region
\* and whose fan-out inserted a replica's entry after the home entry.
C7_Witness ==
    /\ Succeeded
    /\ Len(copy_regions) >= 1
    /\ Len(resolved_regions) > Len(copy_regions)
    /\ Cardinality(stdout[1]) >= 2

\* C8: the home region is no element of the replica regions, and no copy
\* request is issued to the home region (the region of the upload and of
\* the registration).
C8_HomeNeverReplica ==
    /\ \A k \in 1..Len(copy_regions) : copy_regions[k] # initial_region
    /\ \A c \in Ops("copy_image") :
          /\ calls[c].region # initial_region
          /\ \A h \in Ops("upload_from_file") \cup Ops("register_image") :
                calls[c].region # calls[h].region

\* C8 witness: the resolved regions name the home region twice, once not in
\* first place, and a copy request has been issued.
C8_Witness ==
    /\ Ops("copy_image") # {}
    /\ \E i, j \in 1..Len(resolved_regions) :
          /\ i < j
          /\ resolved_regions[i] = initial_region
          /\ resolved_regions[j] = initial_region

\* C9 (as stated): at most one copy request is issued per region, whatever
\* the selector and whatever the directory lists.
C9_OneCopyPerRegion ==
    \A i, j \in Ops("copy_image") :
       i # j => calls[i].region # calls[j].region

(* ---------------------------- pagination ------------------------------ *)
Ssm == Ops("get_parameters_by_path")

\* the regions of the first n responses, in page order
RECURSIVE PagesConcat(_)
PagesConcat(n) ==
    IF n = 0 THEN <<>>
    ELSE PagesConcat(n - 1) \o [i \in 1..Len(calls[n].page[1]) |->
                                   FromStr(calls[n].page[1][i][1])]

RECURSIVE PagesTotal(_)
PagesTotal(n) ==
    IF n = 0 THEN 0 ELSE PagesTotal(n - 1) + Len(calls[n].page[1])

\* resolve_all_regions has returned Ok: main_ is past it (a run that ended
\* inside it ended on its last directory request)
Returned ==
    /\ Ssm # {}
    /\ pc # "get_parameters"
    /\ ~(Exited /\ Len(calls) = Cardinality(Ssm))

\* C10: the directory requests are the first calls of the run; the first
\* carries no token, request k+1 carries the token of response k, and no
\* request follows a response without a token; the loop goes on while the
\* last response carried a token; it ends in an error only on a failed
\* request or a page it cannot read; and once the resolver returned, after
\* N requests, the last response had no token and the resolved regions are
\* the concatenation of the N pages in page order, as many as the page
\* sizes sum to.
C10_PaginationAccumulates ==
    LET m == Cardinality(Ssm) IN
    /\ Ssm = 1..m
    /\ m > 0 => calls[1].arg = <<>>
    /\ \A k \in 2..m :
          /\ calls[k - 1].ok
          /\ calls[k - 1].ret # <<>>
          /\ calls[k].arg = calls[k - 1].ret
    /\ (pc = "get_parameters" /\ m > 0) => calls[m].ret # <<>>
    /\ (m > 0 /\ Exited /\ Len(calls) = m) =>
          \/ ~calls[m].ok
          \/ calls[m].page = <<>>
          \/ FirstBad(calls[m].page[1]) # 0
    /\ Returned =>
          /\ calls[m].ok
          /\ calls[m].ret = <<>>
          /\ resolved_regions = PagesConcat(m)
          /\ Len(resolved_regions) = PagesTotal(m)

\* C10 witness: the resolver returned after two requests whose pages both
\* held a region.
C10_Witness ==
    /\ pc = "filter"
    /\ Cardinality(Ssm) = 2
    /\ Len(calls[1].page[1]) = 1
    /\ Len(calls[2].page[1]) = 1
    /\ Len(resolved_regions) = 2

(* ------------------------ discovery failures -------------------------- *)
\* the directory request at i failed, or its page cannot be read as regions
DiscoveryFailed(i) ==
    /\ calls[i].op = "get_parameters_by_path"
    /\ \/ ~calls[i].ok
       \/ calls[i].page = <<>>
       \/ FirstBad(calls[i].page[1]) # 0

\* C11: region discovery is all-or-nothing.  A directory request that
\* failed, or whose page holds a value that names no region, is the last
\* remote call of the run: the run has ended in failure (exit code 1 for a
\* failed request or an unknown region), no region of the pages fetched
\* before it became a resolved or a replica region, nothing was printed,
\* and no mutating call was issued.
C11_DiscoveryAllOrNothing ==
    \A i \in 1..Len(calls) :
       DiscoveryFailed(i) =>
          /\ i = Len(calls)
          /\ Exited
          /\ exit_code \in {<<1>>, <<101>>}
          /\ (~calls[i].ok \/ err = <<"could not parse region">>) =>
                exit_code = <<1>>
          /\ resolved_regions = <<>>
          /\ copy_regions = <<>>
          /\ stdout = <<>>
          /\ NoMutation

\* C11 witness: the first page held a region, the second request either
\* failed or brought a value that names no region, and the run has ended.
C11_Witness ==
    /\ Exited
    /\ Len(calls) = 2
    /\ calls[1].page # <<>>
    /\ Len(calls[1].page[1]) = 1
    /\ result # <<>>
    /\ DiscoveryFailed(2)
    /\ exit_code = <<1>>

(* --------------------------- root volume size -------------------------- *)
\* ceil(x / 2^30): the exact quotient of a multiple of 2^30, else one more
CeilGb(x) ==
    IF x[1] = 0 THEN <<x[2], x[3], 0>>
    ELSE AddU64(<<x[2], x[3], 0>>, U64One).val

\* x * 2^30, for an x below 2^34
MulByGb(x) == <<0, x[1], x[2]>>

\* C12 (as stated): with no root-size override the rounding succeeds for
\* every 64-bit logical size, and the size sent in the register request is
\* ceil(logical_bytes / 2^30): not negative, the quotient plus one unless
\* logical_bytes is a multiple of 2^30, so size * 2^30 >= logical_bytes.
C12_RootSizeIsCeiling ==
    (root_size = <<>> /\ logical_bytes # <<>>) =>
        /\ err # <<"attempt to add with overflow">>
        /\ \A r \in Ops("register_image") :
              /\ calls[r].size = [neg |-> FALSE, mag |-> CeilGb(logical_bytes)]
              /\ LeqU64(logical_bytes, MulByGb(calls[r].size.mag))

(* ------------------------- the empty selector -------------------------- *)
\* the run was given the empty string as its region selector and has split
\* it (str::split gives the one piece "")
EmptySelector == region_strs = <<<<>>>>

\* C13 (as stated): a run given the empty region selector ends, before any
\* remote call, with the error "must specify one or more regions", not the
\* error of an unparsable region.
C13_EmptySelectorRejected ==
    (Exited /\ EmptySelector) =>
        /\ err = <<"must specify one or more regions">>
        /\ exit_code = <<1>>
        /\ calls = <<>>

(* ---------------------------- home region ------------------------------ *)
\* the regions of rs other than h, in order
Others(rs, h) == SelectSeq(rs, LAMBDA r : r # h)

\* the calls of the home publish: upload, wait, registration, home tag
HomeCalls ==
    {i \in 1..Len(calls) :
        \/ calls[i].op \in {"upload_from_file", "wait_for_completed",
                            "register_image"}
        \/ IsHomeTag(i)}

\* the filter has run: main_ is past the computation of copy_regions
Filtered == pc \notin {"resolve", "get_parameters", "filter"}

\* C14: home-region selection.  For an explicit list whose tokens all parse
\* the home region is the region of the first token, the upload, the wait,
\* the registration and the home tag are issued there, and the replica
\* regions are the regions of the other tokens that differ from it, in
\* list order.  For "all" the home region is the ambient default region,
\* the home publish is issued there, and the replica regions are the
\* discovered regions that differ from it.  Copy requests go to replica
\* regions only.
C14_HomeRegionSelection ==
    /\ (/\ region_strs # <<>>
        /\ region_strs[1] # All
        /\ AllParse(region_strs)
        /\ pc # "resolve") =>
          /\ initial_region = FromStr(region_strs[1])
          /\ resolved_regions = ParseAll(region_strs)
          /\ Filtered =>
                copy_regions =
                   Others(ParseAll(Tail(region_strs)), FromStr(region_strs[1]))
    /\ (pc = "get_parameters" \/ Ssm # {}) =>
          /\ initial_region = default_region
          /\ (Returned /\ Filtered) =>
                copy_regions =
                   Others(PagesConcat(Cardinality(Ssm)), default_region)
    /\ \A i \in HomeCalls : calls[i].region = initial_region
    /\ \A c \in Ops("copy_image") :
          \E k \in 1..Len(copy_regions) : calls[c].region = copy_regions[k]

\* C14 witness: the selector "us-east-1,us-west-2" gave home us-east-1 and
\* the one replica us-west-2; the home publish is done and the copy
\* request has been issued.
C14_Witness ==
    /\ region_strs = <<<<"us-east-1">>, <<"us-west-2">>>>
    /\ initial_region = "UsEast1"
    /\ copy_regions = <<"UsWest2">>
    /\ HomePublished
    /\ Ops("copy_image") # {}

\* C14 witness for "all": the ambient region is among the discovered
\* regions and the fan-out went to the one other region.
C14_WitnessAll ==
    /\ Returned
    /\ Len(resolved_regions) = 2
    /\ Len(copy_regions) = 1
    /\ initial_region = default_region
    /\ Ops("copy_image") # {}

(* ------------------------------- naming -------------------------------- *)
\* the name derived from the metadata: NixOS-<label>-<system>
DerivedName == <<"NixOS-", label, "-", system>>

\* C15: naming.  The register request carries the --name option when one
\* was given and the derived name otherwise; every copy request carries
\* the name of the register request; every tag request, home or replica,
\* carries the derived name as its value, --name or not.
C15_Naming ==
    /\ \A r \in Ops("register_image") :
          calls[r].name = (IF name = <<>> THEN DerivedName ELSE name[1])
    /\ \A c \in Ops("copy_image") :
          \E r \in Ops("register_image") :
             r < c /\ calls[c].name = calls[r].name
    /\ \A t \in Ops("create_tags") : calls[t].name = DerivedName

\* C15 witness: a run with --name given that registered, tagged, copied
\* and tagged the copy, the display name differing from the tag value.
C15_Witness ==
    /\ name # <<>>
    /\ name[1] # DerivedName
    /\ \E c \in Ops("copy_image") :
          /\ calls[c].name = name[1]
          /\ c < Len(calls)
          /\ IsCopyTag(c + 1)
    /\ \E t \in Ops("create_tags") : IsHomeTag(t)

(* -------------------------- root size override ------------------------- *)
\* C16 (as stated): with a root-size override the size sent in the register
\* request is the override itself, for every 64-bit override, and the
\* logical size of the metadata is not read for it.
C16_OverrideVerbatim ==
    root_size # <<>> =>
        /\ logical_bytes = <<>>
        /\ \A r \in Ops("register_image") :
              calls[r].size = [neg |-> FALSE, mag |-> root_size[1]]

(* ------------------------------ the report ----------------------------- *)
\* the region names the report has an entry for
ReportKeys == {e[1] : e \in stdout[1]}

\* C17: the report is all-or-nothing.  Standard output holds at most one
\* report, and once it is written the run is over with exit code 0; it is
\* written only if every remote call of the run succeeded: the home publish
\* and, for every replica region, a copy request that gave an image and the
\* tag request after it.  So a run that exits successfully has reported an
\* entry for the home region and for every replica region, and none else;
\* and a run that ended in failure has written nothing, whatever snapshot
\* and images it had created.
C17_ReportAllOrNothing ==
    /\ Len(stdout) <= 1
    /\ stdout # <<>> =>
          /\ Exited /\ Succeeded
          /\ \A i \in 1..Len(calls) : calls[i].ok
          /\ HomePublished
          /\ \A k \in 1..Len(copy_regions) :
                \E i \in 1..Len(calls) :
                   Replicated(i) /\ calls[i].region = copy_regions[k]
          /\ Cardinality({i \in 1..Len(calls) : Replicated(i)}) =
                Len(copy_regions)
    /\ Succeeded =>
          /\ Len(stdout) = 1
          /\ ReportKeys =
                {Name(initial_region)} \cup
                {Name(copy_regions[k]) : k \in 1..Len(copy_regions)}
    /\ (Exited /\ ~Succeeded) => stdout = <<>>

\* C17 witness: a successful run over an explicit list of three different
\* regions reported three entries.
C17_Witness ==
    /\ Succeeded
    /\ Len(stdout) = 1
    /\ Cardinality(ReportKeys) = 3
    /\ Cardinality(Images) = 3

(* ----------------------------- the sentinel ---------------------------- *)
\* "all" is a token of the selector at a position after the first
AllLater(strs) == \E i \in 2..Len(strs) : strs[i] = All

\* C18: "all" is the sentinel only as first token.  With "all" first the
\* run goes on to region discovery whatever tokens follow, none of which is
\* parsed, and once the resolver returned the resolved regions are the
\* discovered ones and nothing else.  With "all" at a later position the
\* selector is an explicit list that does not parse: the run ends with the
\* unparsable-region error and no remote call.
C18_AllOnlyFirst ==
    /\ (region_strs # <<>> /\ region_strs[1] = All /\ pc # "resolve") =>
          /\ pc = "get_parameters"
          /\ calls = <<>>
          /\ exit_code = <<>>
          /\ resolved_regions = <<>>
    /\ Returned => resolved_regions = PagesConcat(Cardinality(Ssm))
    /\ (/\ region_strs # <<>>
        /\ region_strs[1] # All
        /\ AllLater(region_strs)
        /\ pc # "resolve") =>
          /\ Exited
          /\ exit_code = <<1>>
          /\ err = <<"failed to parse region">>
          /\ calls = <<>>

\* C18 witness: the selector is "all" followed by a token that names no
\* region and by a region, and the run is about to ask the directory.
C18_Witness ==
    /\ pc = "get_parameters"
    /\ calls = <<>>
    /\ Len(region_strs) = 3
    /\ region_strs[1] = All
    /\ FromStr(region_strs[2]) = ParseRegionError
    /\ FromStr(region_strs[3]) # ParseRegionError

\* C18 witness for the later position: a region followed by "all" was
\* rejected.
C18_WitnessLater ==
    /\ Exited
    /\ Len(region_strs) = 2
    /\ FromStr(region_strs[1]) # ParseRegionError
    /\ region_strs[2] = All
    /\ err = <<"failed to parse region">>

====
